---- MODULE Spec2Model ----
(***************************************************************************)
(* Kaprekar's Constant Explorer (kaprekar_explorer.py): the validator      *)
(* validate_input, the digit transform kaprekar_step and the exploration   *)
(* loop explore_kaprekar.  Text is a sequence of one-character strings;    *)
(* Python's str(), str.zfill(), sorted() and int() are modelled by what    *)
(* they do on such sequences.                                              *)
(***************************************************************************)
EXTENDS Integers, Sequences, FiniteSets, TLC

VARIABLES pc,
          number_str, is_valid, error_message, number,
          starting_number, max_steps, sequence, current_number, steps,
          reached_constant, A, B,
          origin, value, applied

vars == << pc, number_str, is_valid, error_message, number,
           starting_number, max_steps, sequence, current_number, steps,
           reached_constant, A, B, origin, value, applied >>

validator_vars == << number_str, is_valid, error_message, number >>
engine_vars == << starting_number, max_steps, sequence, current_number, steps,
                  reached_constant, A, B >>
step_vars == << origin, value, applied >>

----------------------------------------------------------------------------
(* Program constants *)

KaprekarConstant == 6174
DefaultMaxSteps == 50
MinFourDigit == 1000
MaxFourDigit == 9999
Width == 4

NotANumber == "Input must be a valid number"
WrongDigitCount == "Number must be exactly 4 digits"
RepeatedDigits == "All 4 digits must be different (no repeated digits)"

(* Bounds of the model *)

MaxTextLen == 5
MaxStart == 10001
NegStarts == 1
MaxStepsBound == 8
MaxApply == 3

----------------------------------------------------------------------------
(* Python values *)

None == [none |-> TRUE]
Some(v) == [some |-> v]

ValueError == [ok |-> FALSE]
Parsed(v) == [ok |-> TRUE, val |-> v]

(* Characters: the code points Python's sorted() orders them by *)

DigitChars == {"0", "1", "2", "3", "4", "5", "6", "7", "8", "9"}

CodePoint ==
    [c \in {" ", "+", "-", "_", "a"} \cup DigitChars |->
        CASE c = " " -> 32
          [] c = "+" -> 43
          [] c = "-" -> 45
          [] c = "0" -> 48
          [] c = "1" -> 49
          [] c = "2" -> 50
          [] c = "3" -> 51
          [] c = "4" -> 52
          [] c = "5" -> 53
          [] c = "6" -> 54
          [] c = "7" -> 55
          [] c = "8" -> 56
          [] c = "9" -> 57
          [] c = "_" -> 95
          [] c = "a" -> 97]

Ord(c) == CodePoint[c]

DigitValue(c) == Ord(c) - Ord("0")

DigitOf == [d \in 0..9 |-> CHOOSE c \in DigitChars : DigitValue(c) = d]

Chr(d) == DigitOf[d]

(* str(number) for an int *)

RECURSIVE StrNat(_)
StrNat(n) ==
    IF n < 10 THEN << Chr(n) >>
    ELSE Append(StrNat(n \div 10), Chr(n % 10))

str(n) == IF n < 0 THEN << "-" >> \o StrNat(0 - n) ELSE StrNat(n)

(* s.zfill(width): zeros on the left, after a leading sign *)

Zeros(k) == [i \in 1..k |-> "0"]

zfill(s, width) ==
    IF Len(s) >= width THEN s
    ELSE IF Len(s) > 0 /\ s[1] \in {"+", "-"}
         THEN << s[1] >> \o Zeros(width - Len(s)) \o Tail(s)
         ELSE Zeros(width - Len(s)) \o s

(* sorted(s) and sorted(s, reverse=True) on characters *)

RECURSIVE Insert(_, _)
Insert(c, s) ==
    IF s = << >> THEN << c >>
    ELSE IF Ord(c) < Ord(Head(s)) THEN << c >> \o s
         ELSE << Head(s) >> \o Insert(c, Tail(s))

RECURSIVE sorted(_)
sorted(s) == IF s = << >> THEN << >> ELSE Insert(Head(s), sorted(Tail(s)))

Reverse(s) == [i \in 1..Len(s) |-> s[Len(s) + 1 - i]]

sorted_reverse(s) == Reverse(sorted(s))

(* int(s): surrounding whitespace stripped, an optional sign, then decimal   *)
(* digits with single underscores allowed between digits; anything else is   *)
(* a ValueError                                                              *)

RECURSIVE LStrip(_)
LStrip(s) == IF s # << >> /\ Head(s) = " " THEN LStrip(Tail(s)) ELSE s

strip(s) == Reverse(LStrip(Reverse(LStrip(s))))

DigitsOK(d) ==
    /\ Len(d) > 0
    /\ d[1] \in DigitChars
    /\ d[Len(d)] \in DigitChars
    /\ \A i \in 1..Len(d) : d[i] \in DigitChars \cup {"_"}
    /\ \A i \in 1..(Len(d) - 1) : ~(d[i] = "_" /\ d[i + 1] = "_")

RECURSIVE DecimalValue(_)
DecimalValue(d) ==
    IF d = << >> THEN 0
    ELSE LET c == d[Len(d)]
             front == SubSeq(d, 1, Len(d) - 1)
         IN  IF c = "_" THEN DecimalValue(front)
             ELSE 10 * DecimalValue(front) + DigitValue(c)

int(s) ==
    LET t == strip(s)
        signed == t # << >> /\ t[1] \in {"+", "-"}
        d == IF signed THEN Tail(t) ELSE t
    IN  IF ~DigitsOK(d) THEN ValueError
        ELSE IF signed /\ t[1] = "-" THEN Parsed(0 - DecimalValue(d))
             ELSE Parsed(DecimalValue(d))

set(s) == {s[i] : i \in 1..Len(s)}

----------------------------------------------------------------------------
(* validate_input(number_str) -> (is_valid, error_message, number) *)

validate_result(ok, msg, num) ==
    [is_valid |-> ok, error_message |-> msg, number |-> num]

validate_input_no_upper(text) ==
    LET p == int(text)
    IN  IF ~p.ok THEN validate_result(FALSE, Some(NotANumber), None)
        ELSE IF p.val < MinFourDigit
             THEN validate_result(FALSE, Some(WrongDigitCount), None)
        ELSE IF Cardinality(set(zfill(str(p.val), Width))) # 4
             THEN validate_result(FALSE, Some(RepeatedDigits), None)
        ELSE validate_result(TRUE, None, Some(p.val))

validate_input_distinct_first(text) ==
    LET p == int(text)
    IN  IF ~p.ok THEN validate_result(FALSE, Some(NotANumber), None)
        ELSE IF Cardinality(set(zfill(str(p.val), Width))) # 4
             THEN validate_result(FALSE, Some(RepeatedDigits), None)
        ELSE IF p.val < MinFourDigit \/ p.val > MaxFourDigit
             THEN validate_result(FALSE, Some(WrongDigitCount), None)
        ELSE validate_result(TRUE, None, Some(p.val))

validate_input(text) ==
    LET p == int(text)
    IN  IF ~p.ok THEN validate_result(FALSE, Some(NotANumber), None)
        ELSE IF p.val < MinFourDigit \/ p.val > MaxFourDigit
             THEN validate_result(FALSE, Some(WrongDigitCount), None)
        ELSE IF Cardinality(set(zfill(str(p.val), Width))) # 4
             THEN validate_result(FALSE, Some(RepeatedDigits), None)
        ELSE validate_result(TRUE, None, Some(p.val))

----------------------------------------------------------------------------
(* kaprekar_step(number): A - B, A the digits of the zero-padded number    *)
(* sorted descending, B ascending, each read back with int()               *)

step_A(n) == int(sorted_reverse(zfill(str(n), Width)))

ZerosLast(s) ==
    SelectSeq(s, LAMBDA c : c # "0") \o SelectSeq(s, LAMBDA c : c = "0")

step_B_zeros_last(n) == int(ZerosLast(sorted(zfill(str(n), Width))))

step_B(n) == int(sorted(zfill(str(n), Width)))

kaprekar_raises(n) == ~step_A(n).ok \/ ~step_B(n).ok

kaprekar_step_swapped(n) == step_B(n).val - step_A(n).val

kaprekar_step(n) == step_A(n).val - step_B(n).val

----------------------------------------------------------------------------
(* Inputs *)

Alphabet == {"0", "1", "2", "9", "-", "+", " ", "_", "a"}

Texts == UNION {[1..k -> Alphabet] : k \in 0..MaxTextLen}

Starts == (0 - NegStarts)..MaxStart

MaxStepsChoices == (0..MaxStepsBound) \cup {DefaultMaxSteps}

----------------------------------------------------------------------------
(* The validator applied to one input text *)

ValidateInit ==
    /\ pc = "validate"
    /\ number_str \in Texts
    /\ is_valid = None
    /\ error_message = None
    /\ number = None
    /\ starting_number = None /\ max_steps = None /\ sequence = << >>
    /\ current_number = None /\ steps = None /\ reached_constant = None
    /\ A = None /\ B = None
    /\ origin = None /\ value = None /\ applied = None

Validate ==
    /\ pc = "validate"
    /\ LET r == validate_input(number_str)
       IN  /\ is_valid' = Some(r.is_valid)
           /\ error_message' = r.error_message
           /\ number' = r.number
    /\ pc' = "validated"
    /\ UNCHANGED << number_str, engine_vars, step_vars >>

ValidateNext == Validate

SpecValidate == ValidateInit /\ [][ValidateNext]_vars

----------------------------------------------------------------------------
(* kaprekar_step applied repeatedly to its own result *)

StepInit ==
    /\ pc = "apply"
    /\ origin \in Starts
    /\ value = origin
    /\ applied = 0
    /\ A = None /\ B = None
    /\ number_str = << >> /\ is_valid = None /\ error_message = None
    /\ number = None
    /\ starting_number = None /\ max_steps = None /\ sequence = << >>
    /\ current_number = None /\ steps = None /\ reached_constant = None

Apply ==
    /\ pc = "apply"
    /\ applied < MaxApply
    /\ ~kaprekar_raises(value)
    /\ A' = Some(step_A(value).val)
    /\ B' = Some(step_B(value).val)
    /\ value' = kaprekar_step(value)
    /\ applied' = applied + 1
    /\ UNCHANGED << pc, origin, validator_vars, starting_number, max_steps,
                    sequence, current_number, steps, reached_constant >>

ApplyRaise ==
    /\ pc = "apply"
    /\ applied < MaxApply
    /\ kaprekar_raises(value)
    /\ pc' = "raised"
    /\ UNCHANGED << validator_vars, engine_vars, step_vars >>

StepNext == Apply \/ ApplyRaise

SpecStep == StepInit /\ [][StepNext]_vars

----------------------------------------------------------------------------
(* explore_kaprekar(starting_number, max_steps); pc = "loop" is the point   *)
(* where the while condition is about to be evaluated                       *)

loop_condition_le(s, m) == s <= m

loop_condition(s, m) == s < m

is_constant_typo(n) == n = 6147

is_constant(n) == n = KaprekarConstant

Init ==
    /\ pc = "loop"
    /\ starting_number \in Starts
    /\ max_steps \in MaxStepsChoices
    /\ sequence = << starting_number >>
    /\ current_number = starting_number
    /\ steps = 0
    /\ reached_constant = None
    /\ A = None /\ B = None
    /\ number_str = << >> /\ is_valid = None /\ error_message = None
    /\ number = None
    /\ origin = None /\ value = None /\ applied = None

Return ==
    /\ reached_constant' = Some(current_number = KaprekarConstant)
    /\ pc' = "done"
    /\ UNCHANGED << starting_number, max_steps, sequence, current_number,
                    steps, A, B, validator_vars, step_vars >>

LoopStep ==
    /\ pc = "loop"
    /\ loop_condition(steps, max_steps)
    /\ ~is_constant(current_number)
    /\ ~kaprekar_raises(current_number)
    /\ LET next_number == kaprekar_step(current_number)
       IN  /\ sequence' = Append(sequence, next_number)
           /\ current_number' = next_number
    /\ A' = Some(step_A(current_number).val)
    /\ B' = Some(step_B(current_number).val)
    /\ steps' = steps + 1
    /\ UNCHANGED << pc, starting_number, max_steps, reached_constant,
                    validator_vars, step_vars >>

LoopRaise ==
    /\ pc = "loop"
    /\ loop_condition(steps, max_steps)
    /\ ~is_constant(current_number)
    /\ kaprekar_raises(current_number)
    /\ pc' = "raised"
    /\ UNCHANGED << validator_vars, engine_vars, step_vars >>

LoopBreak ==
    /\ pc = "loop"
    /\ loop_condition(steps, max_steps)
    /\ is_constant(current_number)
    /\ Return

LoopExit ==
    /\ pc = "loop"
    /\ ~loop_condition(steps, max_steps)
    /\ Return

Next == LoopStep \/ LoopRaise \/ LoopBreak \/ LoopExit

Spec == Init /\ [][Next]_vars

----------------------------------------------------------------------------
(* Vocabulary of the properties, by arithmetic on the number itself *)

Digit(v, k) == (v \div (10 ^ k)) % 10

DistinctDigits(v) ==
    \A j, k \in 0..3 : j # k => Digit(v, j) # Digit(v, k)

IsCandidate(v) ==
    /\ v >= 1000
    /\ v <= 9999
    /\ DistinctDigits(v)

Last(s) == s[Len(s)]

IsPrefix(s, t) == Len(s) <= Len(t) /\ \A i \in 1..Len(s) : s[i] = t[i]

Explored(start, limit) ==
    /\ pc = "done"
    /\ starting_number = start
    /\ max_steps = limit

----------------------------------------------------------------------------
(* C1: from every candidate number, with the default ceiling of 50 steps,  *)
(* the step count never exceeds 7, the step never raises, after 7 steps    *)
(* the current number is 6174, and the exploration returns with            *)
(* reached_constant true: the loop ends by reaching 6174, never by the     *)
(* ceiling.                                                                *)

C1_CandidatesConverge ==
    IsCandidate(starting_number) /\ max_steps = DefaultMaxSteps
        => /\ steps <= 7
           /\ pc # "raised"
           /\ pc = "loop" /\ steps = 7 => current_number = KaprekarConstant
           /\ pc = "done" => reached_constant = Some(TRUE)

C1_Witness ==
    /\ pc = "done"
    /\ IsCandidate(starting_number)
    /\ max_steps = DefaultMaxSteps
    /\ steps = 7
    /\ reached_constant = Some(TRUE)

(* C2: the validator accepts exactly the texts that int() reads as a       *)
(* candidate number, and then returns that number with no error message.   *)

C2_AcceptsExactlyCandidates ==
    pc = "validated" =>
        LET p == int(number_str)
        IN  /\ (is_valid = Some(TRUE)) <=> (p.ok /\ IsCandidate(p.val))
            /\ is_valid = Some(TRUE)
                  => number = Some(p.val) /\ error_message = None

C2_Witness ==
    /\ pc = "validated"
    /\ number_str = << " ", "1", "0", "2", "9" >>
    /\ is_valid = Some(TRUE)
    /\ number = Some(1029)

(* C3: the validator reports the first failing check in the order parse,   *)
(* range, distinctness, and a failure returns no number.                   *)

C3_FirstFailingCheck ==
    pc = "validated" =>
        LET p == int(number_str)
        IN  /\ ~p.ok => error_message = Some(NotANumber)
            /\ p.ok /\ (p.val < 1000 \/ p.val > 9999)
                  => error_message = Some(WrongDigitCount)
            /\ p.ok /\ p.val >= 1000 /\ p.val <= 9999 /\ ~DistinctDigits(p.val)
                  => error_message = Some(RepeatedDigits)
            /\ error_message # None => is_valid = Some(FALSE) /\ number = None
            /\ is_valid = Some(FALSE) => error_message # None

C3_Witness ==
    /\ pc = "validated"
    /\ number_str = << "-", "1", "1" >>
    /\ error_message = Some(WrongDigitCount)
    /\ number = None

(* C4, as stated: exploring 3524 with the default ceiling reaches 6174 in  *)
(* exactly 5 steps.                                                        *)

C4_FiveSteps ==
    Explored(3524, DefaultMaxSteps)
        => reached_constant = Some(TRUE) /\ steps = 5

(* C4, amended: exploring 3524 with the default ceiling reaches 6174 in    *)
(* exactly 3 steps, through 3087 and 8352.                                 *)

C4_ThreeSteps ==
    Explored(3524, DefaultMaxSteps)
        => /\ reached_constant = Some(TRUE)
           /\ steps = 3
           /\ sequence = << 3524, 3087, 8352, 6174 >>

C4_Witness ==
    Explored(3524, DefaultMaxSteps) /\ Last(sequence) = KaprekarConstant

(* C5: exploring 1234 with the default ceiling returns the sequence        *)
(* 1234, 3087, 8352, 6174 in 3 steps with reached_constant true; the       *)
(* second step subtracts 378 (the ascending digits 0378) from 8730.        *)

C5_Sequence1234 ==
    starting_number = 1234 /\ max_steps = DefaultMaxSteps
        => /\ steps = 2
                => A = Some(8730) /\ B = Some(378) /\ current_number = 8352
           /\ pc = "done"
                => /\ sequence = << 1234, 3087, 8352, 6174 >>
                   /\ steps = 3
                   /\ reached_constant = Some(TRUE)

C5_Witness ==
    /\ Explored(1234, DefaultMaxSteps)
    /\ B = Some(2358)
    /\ Len(sequence) = 4

(* C6: the exploration stops at the first 6174: no element of the sequence *)
(* but the last is 6174, reached_constant is true exactly when the last    *)
(* element is 6174, and a start of 6174 returns [6174] with 0 steps.       *)

C6_StopsAtConstant ==
    /\ \A i \in 1..(Len(sequence) - 1) : sequence[i] # 6174
    /\ pc = "done"
          => (reached_constant = Some(TRUE) <=> Last(sequence) = 6174)
    /\ pc = "done" /\ starting_number = 6174
          => /\ sequence = << 6174 >>
             /\ steps = 0
             /\ reached_constant = Some(TRUE)

C6_Witness ==
    /\ Explored(6174, MaxStepsBound)
    /\ sequence = << 6174 >>
    /\ reached_constant = Some(TRUE)

(* C7: with max_steps = 0 and a start other than 6174 no transform is      *)
(* applied and the result is [start], 0 steps, reached_constant false.     *)

C7_ZeroSteps ==
    pc = "done" /\ max_steps = 0 /\ starting_number # 6174
        => /\ sequence = << starting_number >>
           /\ steps = 0
           /\ reached_constant = Some(FALSE)
           /\ A = None
           /\ B = None

C7_Witness ==
    /\ Explored(1234, 0)
    /\ reached_constant = Some(FALSE)

(* C8: 6174 is a fixed point of kaprekar_step: however often the step is   *)
(* applied starting from 6174, the value is 6174, as 7641 - 1467.          *)

C8_FixedPoint ==
    origin = 6174
        => /\ value = 6174
           /\ applied >= 1 => A = Some(7641) /\ B = Some(1467)

C8_Witness ==
    /\ pc = "apply"
    /\ origin = 6174
    /\ applied >= 2
    /\ value = 6174

(* C9: at every loop boundary and at return, steps = len(sequence) - 1,    *)
(* steps <= max_steps, sequence[0] is the start and current_number is the  *)
(* last element; the sequence only grows by appending; and the loop ends   *)
(* after at most max_steps steps: each step taken in the loop either       *)
(* leaves the loop or adds 1 to steps, and nothing moves after the loop.   *)

C9_LoopInvariant ==
    /\ steps = Len(sequence) - 1
    /\ steps <= max_steps
    /\ sequence[1] = starting_number
    /\ current_number = Last(sequence)

C9_AppendOnly ==
    /\ IsPrefix(sequence, sequence')
    /\ Len(sequence') <= Len(sequence) + 1

C9_Progress ==
    /\ pc = "loop" => pc' # "loop" \/ steps' = steps + 1
    /\ pc # "loop" => UNCHANGED << pc, sequence, steps, current_number >>

C9_LoopBounded ==
    /\ []C9_LoopInvariant
    /\ [][C9_AppendOnly /\ C9_Progress]_vars

C9_Witness ==
    /\ pc = "done"
    /\ steps = max_steps
    /\ steps = MaxStepsBound
    /\ Last(sequence) # KaprekarConstant
    /\ reached_constant = Some(FALSE)

(* C10: from a start in 0..9999 every element of the sequence is in        *)
(* 0..9999, the descending value is never below the ascending one, the     *)
(* step never raises, and the zero-padded current number is 4 digits.      *)

C10_StaysInDomain ==
    starting_number \in 0..9999
        => /\ \A i \in 1..Len(sequence) : sequence[i] \in 0..9999
           /\ pc # "raised"
           /\ A # None => A.some >= B.some
           /\ LET padded == zfill(str(current_number), Width)
              IN  Len(padded) = 4 /\ set(padded) \subseteq DigitChars

C10_Witness ==
    /\ starting_number \in 0..9999
    /\ steps = 2
    /\ sequence[2] = 999
    /\ current_number = 8991

====
